---- MODULE Spec2Model ----
(***************************************************************************)
(* Model of convertToColumnar (dictionary-encoding version) of             *)
(* src/src/App.tsx: the row -> column transposition with null              *)
(* normalisation, the streaming statistics, the adaptive unique-value      *)
(* tracking and the dictionary encoding of low-cardinality columns.        *)
(*                                                                         *)
(* Row and slot indices are 1-based here (TLA+ sequences); dictionary      *)
(* indices stored in `encoded` keep the code's 0-based numbering.          *)
(***************************************************************************)
EXTENDS Integers, Sequences, FiniteSets, TLC

(***************************************************************************)
(* Cell values.  A JavaScript value is a record with one tag and one slot  *)
(* per primitive type, so that values of different types can be compared.  *)
(* The tag "nan" is the number NaN: typeof NaN is "number".                *)
(***************************************************************************)
Null == [type |-> "null", num |-> 0, bool |-> FALSE, str |-> ""]

Undefined == [type |-> "undefined", num |-> 0, bool |-> FALSE, str |-> ""]

NaN == [type |-> "nan", num |-> 0, bool |-> FALSE, str |-> ""]

Num(n) == [type |-> "number", num |-> n, bool |-> FALSE, str |-> ""]

Bool(b) == [type |-> "boolean", num |-> 0, bool |-> b, str |-> ""]

Str(s) == [type |-> "string", num |-> 0, bool |-> FALSE, str |-> s]

\* typeof v
TypeOf(v) == IF v.type = "nan" THEN "number" ELSE v.type

\* typeof val === 'number' && isNaN(val)
IsNaNNumber(v) == v.type = "nan"

\* a normalisation without the NaN test
NormalizeKeepNaN(value) ==
    IF value.type \in {"null", "undefined"} THEN Null ELSE value

\* let val = value ?? null; if (typeof val === 'number' && isNaN(val)) val = null
Normalize(value) ==
    LET val == IF value.type \in {"null", "undefined"} THEN Null ELSE value
    IN  IF TypeOf(val) = "number" /\ IsNaNNumber(val) THEN Null ELSE val

(***************************************************************************)
(* Bounds of the checked inputs.                                           *)
(***************************************************************************)
\* number of leading rows of the two-column inputs whose content varies
MaxFree == 2

\* number of leading rows of the one-column inputs whose content varies
LongFree == 4

\* number of leading rows of the numeric inputs whose content varies
StatFree == 3

Range(s) == {s[n] : n \in DOMAIN s}

Min2(a, b) == IF a <= b THEN a ELSE b

Max2(a, b) == IF a >= b THEN a ELSE b

\* the orders in which the keys S of a record can have been inserted
KeyOrders(S) ==
    {o \in [1..Cardinality(S) -> S] : \A m, n \in DOMAIN o : m # n => o[m] # o[n]}

\* the records (key-ordered field/value entries) over fields cols and values vals
RecordsOver(cols, vals) ==
    UNION {{[n \in 1..Cardinality(S) |-> [col |-> o[n], value |-> f[o[n]]]] :
                o \in KeyOrders(S), f \in [S -> vals]} : S \in SUBSET cols}

\* the input of n rows whose first rows are those of p and whose others are {}
PaddedInput(p, n) == [r \in 1..n |-> IF r <= Len(p) THEN p[r] ELSE <<>>]

\* two sparse columns, either key order
SparseValues == {Null, Undefined, NaN, Num(1), Str("x")}

SparseRecords == RecordsOver({"a", "b"}, SparseValues)

SparseRowCounts == {0, 1, 3}

\* one column of low-cardinality values over row counts around the thresholds
LongValues == {Null, Num(1), Bool(TRUE), Bool(FALSE), Str("a"), Str("b")}

LongRecords == RecordsOver({"a"}, LongValues)

LongRowCounts == {0, 1, 2, 3, 7, 8, 20, 21}

\* one column of numbers and of values that are not numbers
StatValues == {Null, Undefined, NaN, Num(-1), Num(0), Num(2), Str("5")}

StatRecords == RecordsOver({"n"}, StatValues)

StatRowCounts == {0, 3, 4}

(***************************************************************************)
(* Numbers of the result.                                                  *)
(***************************************************************************)
RECURSIVE Gcd(_, _)
Gcd(a, b) == IF b = 0 THEN a ELSE Gcd(b, a % b)

Abs(a) == IF a < 0 THEN -a ELSE a

\* the quotient a / b of two integers, b > 0, as a fraction in lowest terms
Quotient(a, b) ==
    LET g == Gcd(Abs(a), b)
    IN  [num |-> a \div g, den |-> b \div g]

Zero == [num |-> 0, den |-> 1]

\* ToInt8 of an integer: the store into an Int8Array wraps modulo 2^8
ToInt8(n) == ((n + 128) % 256) - 128

\* ToInt8(ToNumber(undefined)) = ToInt8(NaN) = +0
ToInt8Undefined == 0

\* floor(e^s) for s = 0..6: for an integer s and a positive integer n,
\* s >= Math.log(n) exactly when n <= floor(e^s)
FloorExp == <<1, 2, 7, 20, 54, 148, 403>>

\* the comparison size > cardinalityThreshold
ReachesThresholdStrict(size, n) == n < FloorExp[size + 1]

\* size >= cardinalityThreshold, where cardinalityThreshold = Math.log(n)
ReachesThreshold(size, n) == n <= FloorExp[size + 1]

(***************************************************************************)
(* The dictionary sort.                                                    *)
(***************************************************************************)
\* String(v) of a boolean or a string
StringOf(v) ==
    IF v.type = "boolean" THEN (IF v.bool THEN "true" ELSE "false") ELSE v.str

\* the strings of the model in the order localeCompare puts them
Collation == <<"5", "a", "b", "false", "g", "true", "x">>

CollationRank(s) == CHOOSE n \in DOMAIN Collation : Collation[n] = s

\* s.localeCompare(t)
LocaleCompare(s, t) ==
    IF CollationRank(s) < CollationRank(t) THEN -1
    ELSE IF CollationRank(s) > CollationRank(t) THEN 1 ELSE 0

\* the comparator handed to sort
Comparator(a, b) ==
    IF TypeOf(a) = "boolean" /\ TypeOf(b) = "boolean"
    THEN (IF a = b THEN 0 ELSE IF a.bool THEN -1 ELSE 1)
    ELSE LocaleCompare(StringOf(a), StringOf(b))

\* the comparator is a consistent comparator (ECMAScript 23.1.3.30.2) on S
ConsistentOn(S) ==
    \A a, b, c \in S :
        /\ (Comparator(a, b) < 0 /\ Comparator(b, c) < 0) => Comparator(a, c) < 0
        /\ (Comparator(a, b) = 0 /\ Comparator(b, c) = 0) => Comparator(a, c) = 0
        /\ (Comparator(a, b) = 0 /\ Comparator(b, c) < 0) => Comparator(a, c) < 0
        /\ (Comparator(a, b) < 0 /\ Comparator(b, c) = 0) => Comparator(a, c) < 0

Orderings(seq) ==
    {[n \in DOMAIN seq |-> seq[f[n]]] : f \in KeyOrders(DOMAIN seq)}

IndexIn(seq, v) == CHOOSE n \in DOMAIN seq : seq[n] = v

\* the arrays Array.from(uniqueSet).sort(comparator) can return: the stable
\* sort of the insertion order when the comparator is consistent, and an
\* implementation-defined order of the same elements when it is not
SortOutcomes(seq) ==
    IF ConsistentOn(Range(seq))
    THEN {p \in Orderings(seq) :
            \A m, n \in DOMAIN p : m < n =>
                \/ Comparator(p[m], p[n]) < 0
                \/ /\ Comparator(p[m], p[n]) = 0
                   /\ IndexIn(seq, p[m]) < IndexIn(seq, p[n])}
    ELSE Orderings(seq)

(***************************************************************************)
(* State.                                                                  *)
(***************************************************************************)
VARIABLES
    rows,             \* the input: a sequence of records
    pc,               \* "start", "scan", "encode", "done"; "infer", "inferred"
    i,                \* index of the row being scanned
    j,                \* index of the entry of rows[i] handled next
    k,                \* index of the uniqueValues key encoded next
    rowCount,
    columns,          \* the Set columns, in insertion order
    data,             \* column name -> array of rowCount values
    stats,            \* column name -> [min, max, sum, count, mean]
    uniqueValues,     \* column name -> [tracking, seen]; tracking = FALSE is null
    uniqueKeys,       \* the keys of uniqueValues in insertion order
    categories,       \* column name -> [dictionary, encoded, counts]
    columnData,       \* the argument of a call of inferType
    columnType        \* the type the call returned, "" before it returns

vars == <<rows, pc, i, j, k, rowCount, columns, data, stats,
          uniqueValues, uniqueKeys, categories, columnData, columnType>>

\* the state of a call of inferType
inferVars == <<columnData, columnType>>

\* the state of a call of convertToColumnar
convertVars == <<rows, i, j, k, rowCount, columns, data, stats,
                 uniqueValues, uniqueKeys, categories>>

\* the function with no argument: the object {}
EmptyObject == [c \in {} |-> 0]

\* uniqueValues[col] = null
Abandoned == [tracking |-> FALSE, seen |-> <<>>]

\* a number held by the counts map: an integer or NaN
Count(n) == [nan |-> FALSE, n |-> n]

CountNaN == [nan |-> TRUE, n |-> 0]

\* x + 1
PlusOne(x) == IF x.nan THEN CountNaN ELSE Count(x.n + 1)

\* the inputs of n rows, n in counts, whose first `free` rows vary over recs
InitOn(recs, free, counts) ==
    /\ \E n \in counts : \E p \in [1..Min2(n, free) -> recs] :
            rows = PaddedInput(p, n)
    /\ pc = "start"
    /\ i = 1
    /\ j = 1
    /\ k = 1
    /\ rowCount = 0
    /\ columns = <<>>
    /\ data = EmptyObject
    /\ stats = EmptyObject
    /\ uniqueValues = EmptyObject
    /\ uniqueKeys = <<>>
    /\ categories = EmptyObject
    /\ columnData = <<>>
    /\ columnType = ""

Init == InitOn(SparseRecords, MaxFree, SparseRowCounts)

InitLong == InitOn(LongRecords, LongFree, LongRowCounts)

InitStat == InitOn(StatRecords, StatFree, StatRowCounts)

(***************************************************************************)
(* convertToColumnar.                                                      *)
(***************************************************************************)
\* a start without the empty guard
StartNoGuard ==
    /\ pc = "start"
    /\ rowCount' = Len(rows)
    /\ pc' = "scan"
    /\ UNCHANGED <<rows, i, j, k, columns, data, stats, uniqueValues,
                   uniqueKeys, categories>>
    /\ UNCHANGED inferVars

\* const rowCount = rows.length; the empty guard; the empty accumulators
Start ==
    /\ pc = "start"
    /\ rowCount' = Len(rows)
    /\ pc' = IF Len(rows) = 0 THEN "done" ELSE "scan"
    /\ UNCHANGED <<rows, i, j, k, columns, data, stats, uniqueValues,
                   uniqueKeys, categories>>
    /\ UNCHANGED inferVars

\* an add that keeps duplicates
SetAddDuplicates(seen, val) == Append(seen, val)

\* uniqueValues[col].add(val) on the insertion-ordered Set
SetAdd(seen, val) == IF val \in Range(seen) THEN seen ELSE Append(seen, val)

\* a tracking that compares the size with the threshold before it adds
TrackCheckBeforeAdd(uv, col, val, n) ==
    IF /\ (col \notin DOMAIN uv \/ uv[col].tracking)
       /\ TypeOf(val) \in {"string", "boolean"}
    THEN LET old == IF col \in DOMAIN uv THEN uv[col].seen ELSE <<>>
         IN  (col :> (IF ReachesThreshold(Len(old), n)
                      THEN Abandoned
                      ELSE [tracking |-> TRUE, seen |-> SetAdd(old, val)])) @@ uv
    ELSE uv

\* a tracking that starts a new set for an abandoned column
TrackRestart(uv, col, val, n) ==
    IF TypeOf(val) \in {"string", "boolean"}
    THEN LET seen == SetAdd(IF col \in DOMAIN uv THEN uv[col].seen ELSE <<>>, val)
         IN  (col :> (IF ReachesThreshold(Len(seen), n)
                      THEN Abandoned
                      ELSE [tracking |-> TRUE, seen |-> seen])) @@ uv
    ELSE uv

\* the unique-value tracking of one cell
Track(uv, col, val, n) ==
    IF /\ (col \notin DOMAIN uv \/ uv[col].tracking)
       /\ TypeOf(val) \in {"string", "boolean"}
    THEN LET seen == SetAdd(IF col \in DOMAIN uv THEN uv[col].seen ELSE <<>>, val)
         IN  (col :> (IF ReachesThreshold(Len(seen), n)
                      THEN Abandoned
                      ELSE [tracking |-> TRUE, seen |-> seen])) @@ uv
    ELSE uv

\* a statistics update that takes every non-null value for a number
AccumulateCountAll(st, col, val) ==
    IF val.type # "null"
    THEN IF col \notin DOMAIN st
         THEN (col :> [min |-> val.num, max |-> val.num, sum |-> val.num,
                       count |-> 1, mean |-> Zero]) @@ st
         ELSE [st EXCEPT ![col] = [min |-> Min2(@.min, val.num),
                                   max |-> Max2(@.max, val.num),
                                   sum |-> @.sum + val.num,
                                   count |-> @.count + 1,
                                   mean |-> @.mean]]
    ELSE st

\* the statistics update of one cell
Accumulate(st, col, val) ==
    IF TypeOf(val) = "number"
    THEN IF col \notin DOMAIN st
         THEN (col :> [min |-> val.num, max |-> val.num, sum |-> val.num,
                       count |-> 1, mean |-> Zero]) @@ st
         ELSE [st EXCEPT ![col] = [min |-> Min2(@.min, val.num),
                                   max |-> Max2(@.max, val.num),
                                   sum |-> @.sum + val.num,
                                   count |-> @.count + 1,
                                   mean |-> @.mean]]
    ELSE st

\* a store whose new column is backfilled up to the current row only
StoreBackfillOnly(d, isNew, col, row, val, n) ==
    LET d1 == IF isNew THEN (col :> [m \in 1..row |-> Null]) @@ d ELSE d
        d2 == IF row > Len(d1[col])
              THEN [d1 EXCEPT ![col] =
                        [m \in 1..row |-> IF m <= Len(d1[col]) THEN d1[col][m] ELSE Null]]
              ELSE d1
    IN  [d2 EXCEPT ![col][row] = val]

\* data[col] = new Array(rowCount).fill(null) for a new column; data[col][i] = val
Store(d, isNew, col, row, val, n) ==
    LET d1 == IF isNew THEN (col :> [m \in 1..n |-> Null]) @@ d ELSE d
    IN  [d1 EXCEPT ![col][row] = val]

\* a registration that puts the new column first
RegisterFront(cols, isNew, col) == IF isNew THEN <<col>> \o cols ELSE cols

\* if (!columns.has(col)) columns.add(col), on the insertion-ordered Set
Register(cols, isNew, col) == IF isNew THEN Append(cols, col) ELSE cols

\* the body of Object.entries(row).forEach for the entry j of row i
ProcessCell ==
    /\ pc = "scan"
    /\ i <= rowCount
    /\ j <= Len(rows[i])
    /\ LET col == rows[i][j].col
           val == Normalize(rows[i][j].value)
           isNew == col \notin Range(columns)
       IN  /\ columns' = Register(columns, isNew, col)
           /\ data' = Store(data, isNew, col, i, val, rowCount)
           /\ uniqueValues' = Track(uniqueValues, col, val, rowCount)
           /\ uniqueKeys' = IF col \in DOMAIN uniqueValues' /\ col \notin Range(uniqueKeys)
                            THEN Append(uniqueKeys, col) ELSE uniqueKeys
           /\ stats' = Accumulate(stats, col, val)
    /\ j' = j + 1
    /\ UNCHANGED <<rows, pc, i, k, rowCount, categories>>
    /\ UNCHANGED inferVars

\* rows.forEach moves to the next row once the entries of row i are done
NextRow ==
    /\ pc = "scan"
    /\ i <= rowCount
    /\ j > Len(rows[i])
    /\ i' = i + 1
    /\ j' = 1
    /\ UNCHANGED <<rows, pc, k, rowCount, columns, data, stats, uniqueValues,
                   uniqueKeys, categories>>
    /\ UNCHANGED inferVars

\* s.mean = s.sum / s.count
Mean(s) == Quotient(s.sum, s.count)

\* Object.values(stats).forEach(s => { s.mean = s.sum / s.count })
CalculateMeans ==
    /\ pc = "scan"
    /\ i > rowCount
    /\ stats' = [c \in DOMAIN stats |-> [stats[c] EXCEPT !.mean = Mean(stats[c])]]
    /\ pc' = "encode"
    /\ k' = 1
    /\ UNCHANGED <<rows, i, j, rowCount, columns, data, uniqueValues,
                   uniqueKeys, categories>>
    /\ UNCHANGED inferVars

\* an index counted from 1
EncodeIndexOneBased(dictionary, val) ==
    IF val \in Range(dictionary) THEN ToInt8(IndexIn(dictionary, val))
    ELSE ToInt8Undefined

\* encoded[i] = valueToIndex.get(typedVal)!
EncodeIndex(dictionary, val) ==
    IF val \in Range(dictionary) THEN ToInt8(IndexIn(dictionary, val) - 1)
    ELSE ToInt8Undefined

\* data[col][m]: a read past the end of an array yields undefined
At(column, m) == IF m \in DOMAIN column THEN column[m] ELSE Undefined

\* the encoded array with one slot less than rowCount
EncodedShort(dictionary, column, n) ==
    [m \in 1..(n - 1) |->
        IF At(column, m) = Null THEN -1 ELSE EncodeIndex(dictionary, At(column, m))]

\* const encoded = new Int8Array(rowCount) and the stores of the encoding loop
Encoded(dictionary, column, n) ==
    [m \in 1..n |->
        IF At(column, m) = Null THEN -1 ELSE EncodeIndex(dictionary, At(column, m))]

\* counts after the rows 1..m of the encoding loop
RECURSIVE CountsAfter(_, _, _)
CountsAfter(dictionary, column, m) ==
    IF m = 0 THEN [v \in Range(dictionary) |-> Count(0)]
    ELSE LET before == CountsAfter(dictionary, column, m - 1)
             val == At(column, m)
         IN  IF val = Null THEN before
             ELSE IF val \in DOMAIN before
                  THEN [before EXCEPT ![val] = PlusOne(@)]
                  ELSE (val :> CountNaN) @@ before

\* a delete that leaves the raw column in place
DeleteKeep(d, col) == d

\* delete data[col]
Delete(d, col) == [c \in DOMAIN d \ {col} |-> d[c]]

\* the body of Object.entries(uniqueValues).forEach for the key k
EncodeColumn ==
    /\ pc = "encode"
    /\ k <= Len(uniqueKeys)
    /\ LET col == uniqueKeys[k]
           uniqueSet == uniqueValues[col]
       IN  IF ~uniqueSet.tracking
           THEN UNCHANGED <<categories, data>>
           ELSE \E dictionary \in SortOutcomes(uniqueSet.seen) :
                   /\ categories' =
                        (col :> [dictionary |-> dictionary,
                                 encoded |-> Encoded(dictionary, data[col], rowCount),
                                 counts |-> CountsAfter(dictionary, data[col], rowCount)])
                        @@ categories
                   /\ data' = Delete(data, col)
    /\ k' = k + 1
    /\ UNCHANGED <<rows, pc, i, j, rowCount, columns, stats, uniqueValues, uniqueKeys>>
    /\ UNCHANGED inferVars

\* return { columns, data, rowCount, stats, categories }
Return ==
    /\ pc = "encode"
    /\ k > Len(uniqueKeys)
    /\ pc' = "done"
    /\ UNCHANGED <<rows, i, j, k, rowCount, columns, data, stats, uniqueValues,
                   uniqueKeys, categories>>
    /\ UNCHANGED inferVars

Next ==
    \/ Start
    \/ ProcessCell
    \/ NextRow
    \/ CalculateMeans
    \/ EncodeColumn
    \/ Return

Spec == Init /\ [][Next]_vars

SpecLong == InitLong /\ [][Next]_vars

SpecStat == InitStat /\ [][Next]_vars

(***************************************************************************)
(* inferType.  Numbers of its inputs are counted in units of 100000, which *)
(* both ends of the epoch window are multiples of (946684800000 and        *)
(* 4102444800000 milliseconds), so that they fit the checker's integers.   *)
(***************************************************************************)
\* 946684800000 / 100000
DateWindowLow == 9466848

\* 4102444800000 / 100000
DateWindowHigh == 41024448

\* number of elements of the longest array handed to inferType
InferLen == 3

InferValues ==
    {Null, Undefined, NaN, Bool(TRUE), Num(0), Num(DateWindowLow),
     Num(DateWindowLow + 1), Num(DateWindowHigh - 1), Num(DateWindowHigh),
     Str("x"), Str("2024-01-15")}

\* a window that takes its two ends in
InDateWindowInclusive(n) == n >= DateWindowLow /\ n <= DateWindowHigh

\* sample > 946684800000 && sample < 4102444800000
InDateWindow(n) == n > DateWindowLow /\ n < DateWindowHigh

\* the strings of the model that new Date parses and a date pattern matches
DateTexts == {"2024-01-15"}

\* columnData.find(val => val !== null && val !== undefined), from index n on:
\* the index of the sample, 0 when find returns undefined
RECURSIVE FindSample(_, _)
FindSample(arr, n) ==
    IF n > Len(arr) THEN 0
    ELSE IF arr[n].type \notin {"null", "undefined"} THEN n
    ELSE FindSample(arr, n + 1)

\* inferType(columnData)
InferType(arr) ==
    LET n == FindSample(arr, 1)
    IN  IF n = 0 THEN "string"
        ELSE IF TypeOf(arr[n]) = "boolean" THEN "boolean"
        ELSE IF TypeOf(arr[n]) = "number"
             THEN (IF ~IsNaNNumber(arr[n]) /\ InDateWindow(arr[n].num)
                   THEN "date" ELSE "number")
        ELSE IF TypeOf(arr[n]) = "string" /\ arr[n].str \in DateTexts THEN "date"
        ELSE "string"

\* the arrays handed to inferType
InitInfer ==
    /\ \E n \in 0..InferLen : columnData \in [1..n -> InferValues]
    /\ columnType = ""
    /\ pc = "infer"
    /\ rows = <<>>
    /\ i = 1
    /\ j = 1
    /\ k = 1
    /\ rowCount = 0
    /\ columns = <<>>
    /\ data = EmptyObject
    /\ stats = EmptyObject
    /\ uniqueValues = EmptyObject
    /\ uniqueKeys = <<>>
    /\ categories = EmptyObject

\* a call of inferType
Infer ==
    /\ pc = "infer"
    /\ columnType' = InferType(columnData)
    /\ pc' = "inferred"
    /\ UNCHANGED columnData
    /\ UNCHANGED convertVars

NextInfer == Infer

SpecInfer == InitInfer /\ [][NextInfer]_vars

TypeOK ==
    /\ pc \in {"start", "scan", "encode", "done", "infer", "inferred"}
    /\ rowCount \in {0, Len(rows)}
    /\ DOMAIN data \subseteq Range(columns)
    /\ DOMAIN stats \subseteq Range(columns)
    /\ DOMAIN uniqueValues = Range(uniqueKeys)
    /\ DOMAIN categories \subseteq Range(uniqueKeys)

(***************************************************************************)
(* The input as the properties read it.                                    *)
(***************************************************************************)
Done == pc = "done"

\* the field names of the input
Fields == UNION {{rows[r][n].col : n \in DOMAIN rows[r]} : r \in DOMAIN rows}

\* row r has the field c
Has(r, c) == \E n \in DOMAIN rows[r] : rows[r][n].col = c

\* the value row r holds for its field c
Held(r, c) == rows[r][CHOOSE n \in DOMAIN rows[r] : rows[r][n].col = c].value

\* the value row r is to show for c: null for a missing field, null, undefined, NaN
Cell(r, c) ==
    IF ~Has(r, c) THEN Null
    ELSE IF Held(r, c).type \in {"null", "undefined", "nan"} THEN Null
    ELSE Held(r, c)

\* the rows holding a number that is not NaN for c
NumericRows(c) == {r \in DOMAIN rows : Has(r, c) /\ Held(r, c).type = "number"}

\* the distinct non-null values of c
Distinct(c) == {Cell(r, c) : r \in DOMAIN rows} \ {Null}

\* d < ln(n), for an integer d >= 0 and n >= 1: e^d < n, that is floor(e^d) < n
BelowLn(d, n) == FloorExp[d + 1] < n

\* the value the rendering decodes for row r of an encoded column c
Decoded(c, r) ==
    IF categories[c].encoded[r] = -1 THEN Null
    ELSE IF categories[c].encoded[r] + 1 \in DOMAIN categories[c].dictionary
         THEN categories[c].dictionary[categories[c].encoded[r] + 1]
         ELSE Undefined

RECURSIVE SumOver(_, _)
SumOver(c, R) ==
    IF R = {} THEN 0
    ELSE LET r == CHOOSE x \in R : TRUE IN Held(r, c).num + SumOver(c, R \ {r})

(***************************************************************************)
(* Properties.                                                             *)
(***************************************************************************)
\* C1: a column that holds a number in some row is never a key of categories
\* once the conversion has returned.
NumericExcluded ==
    Done => \A c \in DOMAIN categories : NumericRows(c) = {}

\* C2: for every encoded column and every row, decoding the stored index gives
\* back the normalised value the row holds for the column.
DictionaryRoundTrip ==
    Done => \A c \in DOMAIN categories : \A r \in DOMAIN rows :
                Decoded(c, r) = Cell(r, c)

\* C3 as stated: a column without numbers is encoded when it has fewer than
\* ln(rowCount) distinct non-null values, and is not encoded otherwise.
ThresholdAsStated ==
    Done => \A c \in Fields : NumericRows(c) = {} =>
                (c \in DOMAIN categories
                    <=> BelowLn(Cardinality(Distinct(c)), Len(rows)))

\* C3: a column without numbers that has at least one non-null value is
\* encoded when it has fewer than ln(rowCount) distinct non-null values; a
\* column without numbers that has ln(rowCount) or more is never encoded.
ThresholdNonEmpty ==
    Done => \A c \in Fields : NumericRows(c) = {} =>
                /\ (Distinct(c) # {} /\ BelowLn(Cardinality(Distinct(c)), Len(rows)))
                        => c \in DOMAIN categories
                /\ ~BelowLn(Cardinality(Distinct(c)), Len(rows))
                        => c \notin DOMAIN categories

ThresholdWitness ==
    /\ Done
    /\ \E c \in DOMAIN categories :
            NumericRows(c) = {} /\ Cardinality(Distinct(c)) = 2
    /\ Len(rows) = 8

\* C4 as stated: with 20 rows a column of 3 distinct text/boolean values is
\* encoded and a column of 4 is not.
BoundaryAsStated ==
    (Done /\ Len(rows) = 20) => \A c \in Fields : NumericRows(c) = {} =>
        /\ Cardinality(Distinct(c)) = 3 => c \in DOMAIN categories
        /\ Cardinality(Distinct(c)) = 4 => c \notin DOMAIN categories

\* C4: with 20 rows (ln 20 < 3) a column of 2 distinct text/boolean values is
\* encoded and a column of 3 or of 4 is not; with 21 rows (ln 21 > 3) a column
\* of 3 is encoded and a column of 4 is not.
BoundaryShifted ==
    Done => \A c \in Fields : NumericRows(c) = {} =>
        /\ Len(rows) = 20 =>
            /\ Cardinality(Distinct(c)) = 2 => c \in DOMAIN categories
            /\ Cardinality(Distinct(c)) \in {3, 4} => c \notin DOMAIN categories
        /\ Len(rows) = 21 =>
            /\ Cardinality(Distinct(c)) = 3 => c \in DOMAIN categories
            /\ Cardinality(Distinct(c)) = 4 => c \notin DOMAIN categories

BoundaryWitness ==
    /\ Done
    /\ Len(rows) = 20
    /\ \E c \in DOMAIN data : NumericRows(c) = {} /\ Cardinality(Distinct(c)) = 3

\* C5: every raw column and every encoded index array of the result has as
\* many slots as the input has rows.
RowCountInvariant ==
    Done => /\ \A c \in DOMAIN data : Len(data[c]) = Len(rows)
            /\ \A c \in DOMAIN categories : Len(categories[c].encoded) = Len(rows)

RowCountWitness ==
    /\ Done
    /\ \E c \in DOMAIN data : ~Has(1, c) /\ ~Has(Len(rows), c)
    /\ \E c \in DOMAIN categories : ~Has(1, c) /\ ~Has(Len(rows), c)

\* C6: every slot of a raw column is null when the row lacks the field or
\* holds null, undefined or NaN for it, and is the value the row holds otherwise.
CellNormalization ==
    Done => \A c \in DOMAIN data : \A r \in DOMAIN rows :
                r \in DOMAIN data[c] /\ data[c][r] = Cell(r, c)

CellWitness ==
    /\ Done
    /\ \E c \in DOMAIN data :
            /\ ~Has(1, c)
            /\ \E r \in DOMAIN rows : Has(r, c) /\ Held(r, c) = NaN
    /\ \E c \in DOMAIN data : \E r \in DOMAIN rows : Has(r, c) /\ Held(r, c) = Undefined
    /\ \E c \in DOMAIN data : \E r \in DOMAIN rows : Has(r, c) /\ Held(r, c) = Num(1)

\* C7: count is the number of rows holding a number that is not NaN, sum their
\* sum, min and max their least and greatest, and mean is sum / count.
StatsCorrect ==
    Done => \A c \in DOMAIN stats :
        /\ stats[c].count = Cardinality(NumericRows(c))
        /\ stats[c].sum = SumOver(c, NumericRows(c))
        /\ \A r \in NumericRows(c) :
                stats[c].min <= Held(r, c).num /\ Held(r, c).num <= stats[c].max
        /\ \E r \in NumericRows(c) : stats[c].min = Held(r, c).num
        /\ \E r \in NumericRows(c) : stats[c].max = Held(r, c).num
        /\ stats[c].mean.den > 0
        /\ stats[c].mean.num * stats[c].count = stats[c].sum * stats[c].mean.den

StatsWitness ==
    /\ Done
    /\ \E c \in DOMAIN stats :
            /\ stats[c].count = 2
            /\ stats[c].min < stats[c].max
            /\ stats[c].mean.den = 2
            /\ Len(rows) = 4
            /\ \E r \in DOMAIN rows : Has(r, c) /\ Held(r, c) = Str("5")

\* C8: a column has a stats entry exactly when some row holds a number that is
\* not NaN for it, and every entry has count >= 1.
StatsPresence ==
    Done => /\ DOMAIN stats = {c \in Fields : NumericRows(c) # {}}
            /\ \A c \in DOMAIN stats : stats[c].count >= 1

StatsPresenceWitness ==
    /\ Done
    /\ DOMAIN stats # {}
    /\ \E c \in Fields \ DOMAIN stats :
            \E r \in DOMAIN rows : Has(r, c) /\ Held(r, c) = NaN

\* C9: every name of columns is a key of exactly one of data and categories.
ExclusiveStorage ==
    Done => \A n \in DOMAIN columns :
                (columns[n] \in DOMAIN data) # (columns[n] \in DOMAIN categories)

ExclusiveWitness ==
    /\ Done
    /\ \E m, n \in DOMAIN columns :
            columns[m] \in DOMAIN data /\ columns[n] \in DOMAIN categories

\* C10: every stored index of an encoded column lies in -1 .. dictionary.length - 1.
IndexRange ==
    Done => \A c \in DOMAIN categories : \A r \in DOMAIN categories[c].encoded :
                categories[c].encoded[r] \in -1..(Len(categories[c].dictionary) - 1)

IndexRangeWitness ==
    /\ Done
    /\ \E c \in DOMAIN categories :
            /\ NumericRows(c) # {}
            /\ Len(categories[c].dictionary) = 2
            /\ \E r \in DOMAIN rows : categories[c].encoded[r] = 1
            /\ \E r \in DOMAIN rows : categories[c].encoded[r] = -1

\* C11: on an empty input the call returns at its guard, with columns = [],
\* rowCount = 0, data = {}, stats = {} and categories = {}.
EmptyInput ==
    (Len(rows) = 0 /\ pc # "start") =>
        /\ Done
        /\ columns = <<>>
        /\ rowCount = 0
        /\ data = EmptyObject
        /\ stats = EmptyObject
        /\ categories = EmptyObject

EmptyInputWitness == Done /\ Len(rows) = 0 /\ rowCount = 0 /\ columns = <<>>

\* the least index of arr holding neither null nor undefined, 0 when none
SampleIndex(arr) ==
    LET S == {n \in DOMAIN arr : arr[n] # Null /\ arr[n] # Undefined}
    IN  IF S = {} THEN 0 ELSE CHOOSE n \in S : \A m \in S : n <= m

\* C13: inferType decides on the first element that is neither null nor
\* undefined alone: "string" when there is none, "boolean" for a boolean, and
\* for a number "date" strictly inside the epoch window, "number" otherwise.
InferNonText ==
    pc = "inferred" =>
        LET n == SampleIndex(columnData)
        IN  /\ n = 0 => columnType = "string"
            /\ (n # 0 /\ columnData[n].type = "boolean") => columnType = "boolean"
            /\ (n # 0 /\ columnData[n].type = "nan") => columnType = "number"
            /\ (n # 0 /\ columnData[n].type = "number") =>
                    columnType =
                        IF /\ DateWindowLow < columnData[n].num
                           /\ columnData[n].num < DateWindowHigh
                        THEN "date" ELSE "number"

InferWitness ==
    /\ pc = "inferred"
    /\ Len(columnData) = 3
    /\ columnData[1] = Undefined
    /\ columnData[2] = Num(DateWindowHigh)
    /\ columnData[3] = Str("2024-01-15")
    /\ columnType = "number"

\* the first row that has the field c
FirstRow(c) == CHOOSE r \in DOMAIN rows : Has(r, c) /\ \A q \in 1..(r - 1) : ~Has(q, c)

\* the place of the field c among the entries of row r
EntryIndex(r, c) == CHOOSE n \in DOMAIN rows[r] : rows[r][n].col = c

\* c appears before d when the rows and the entries of each row are read in order
AppearsBefore(c, d) ==
    \/ FirstRow(c) < FirstRow(d)
    \/ /\ FirstRow(c) = FirstRow(d)
       /\ EntryIndex(FirstRow(c), c) < EntryIndex(FirstRow(d), d)

\* s is an initial segment of t
IsPrefix(s, t) == Len(s) <= Len(t) /\ \A n \in DOMAIN s : s[n] = t[n]

\* C14: the returned columns list every field of the input exactly once, in
\* the order of first appearance, and no other name; while scanning, columns
\* only grows at its end, so a registered column never moves.
ColumnOrder ==
    /\ [](Done =>
            /\ Range(columns) = Fields
            /\ Len(columns) = Cardinality(Fields)
            /\ \A m, n \in DOMAIN columns :
                    m < n => AppearsBefore(columns[m], columns[n]))
    /\ [][IsPrefix(columns, columns')]_vars

ColumnOrderWitness ==
    /\ Done
    /\ columns = <<"b", "a">>
    /\ Len(rows[1]) = 1
    /\ Len(rows[2]) = 2
    /\ rows[2][1].col = "a"

\* the boolean and text values of c
Tracked(c) == {v \in Distinct(c) : v.type \in {"boolean", "string"}}

\* a is to stand before b in a dictionary: booleans before strings, true
\* before false, strings in ascending order
StandsBefore(a, b) ==
    \/ a.type = "boolean" /\ b.type = "string"
    \/ a.type = "boolean" /\ b.type = "boolean" /\ a.bool /\ ~b.bool
    \/ a.type = "string" /\ b.type = "string"
            /\ CollationRank(a.str) < CollationRank(b.str)

\* C15: every dictionary holds each distinct boolean or text value of its
\* column exactly once, booleans before strings, true before false, strings
\* in ascending order.
DictionaryOrder ==
    Done => \A c \in DOMAIN categories :
        LET dictionary == categories[c].dictionary
        IN  /\ Range(dictionary) = Tracked(c)
            /\ Len(dictionary) = Cardinality(Tracked(c))
            /\ \A m, n \in DOMAIN dictionary :
                    m < n => StandsBefore(dictionary[m], dictionary[n])

\* C16: a tracked set never holds ln(rowCount) or more values; once the
\* tracking state of a column is abandoned it is abandoned in every later
\* step, and the column is not encoded.
AbandonmentPermanent ==
    /\ [](\A c \in DOMAIN uniqueValues :
            uniqueValues[c].tracking
                => BelowLn(Len(uniqueValues[c].seen), rowCount))
    /\ [][\A c \in DOMAIN uniqueValues :
            ~uniqueValues[c].tracking
                => c \in DOMAIN uniqueValues' /\ ~uniqueValues'[c].tracking]_vars
    /\ [](\A c \in DOMAIN uniqueValues :
            ~uniqueValues[c].tracking => c \notin DOMAIN categories)

AbandonmentWitness ==
    /\ Done
    /\ Len(rows) = 3
    /\ \E c \in DOMAIN uniqueValues :
            /\ ~uniqueValues[c].tracking
            /\ Cardinality(Tracked(c)) = 3
            /\ c \in DOMAIN data

\* the rows whose normalised value for c is v
RowsHolding(c, v) == {r \in DOMAIN rows : Cell(r, c) = v}

\* the sum of the counts f over the keys K
RECURSIVE SumOfCounts(_, _)
SumOfCounts(f, K) ==
    IF K = {} THEN 0
    ELSE LET v == CHOOSE x \in K : TRUE IN f[v].n + SumOfCounts(f, K \ {v})

\* C17: the keys of counts are the dictionary values, each key maps to the
\* number of rows holding it, and the counts sum to the number of rows whose
\* value for the column is not null.
FrequencyCounts ==
    Done => \A c \in DOMAIN categories :
        LET counts == categories[c].counts
        IN  /\ DOMAIN counts = Range(categories[c].dictionary)
            /\ \A v \in DOMAIN counts :
                    counts[v] = Count(Cardinality(RowsHolding(c, v)))
            /\ SumOfCounts(counts, DOMAIN counts)
                    = Cardinality(DOMAIN rows \ RowsHolding(c, Null))

\* C18: every dictionary has at least 1 and fewer than ln(rowCount) entries;
\* so inputs of 1 or 2 rows and columns that are all null yield no encoded
\* column, and every index is stored in its Int8Array slot unchanged.
DictionarySize ==
    Done =>
        /\ \A c \in DOMAIN categories :
            LET dictionary == categories[c].dictionary
            IN  /\ Len(dictionary) >= 1
                /\ BelowLn(Len(dictionary), Len(rows))
                /\ Len(dictionary) - 1 <= 127
                /\ \A r \in DOMAIN rows : Cell(r, c) \in Range(dictionary) =>
                        categories[c].encoded[r] = IndexIn(dictionary, Cell(r, c)) - 1
        /\ Len(rows) \in {1, 2} => DOMAIN categories = {}
        /\ \A c \in Fields : Distinct(c) = {} => c \notin DOMAIN categories

DictionarySizeWitness ==
    /\ Done
    /\ Len(rows) = 21
    /\ \E c \in DOMAIN categories :
            /\ Len(categories[c].dictionary) = 3
            /\ \E r \in DOMAIN rows : categories[c].encoded[r] = 2

====
